---- MODULE Spec2Model ----
(***************************************************************************)
(* State-machine model of the pm2-io metric probes (V8Metric,              *)
(* RuntimeMetrics) and of the transport factory (createTransport).         *)
(*                                                                         *)
(* The probes and createTransport are translated from the sources in       *)
(* src/.  The collaborators they call (ServiceManager, MetricService,      *)
(* Gauge, Histogram, RuntimeStatsService, IPCTransport) are not part of    *)
(* the visible sources; they are modelled from the design specification.   *)
(***************************************************************************)
EXTENDS Integers, Sequences, FiniteSets, TLC

VARIABLES
  services,    \* ServiceManager: which named services can be looked up
  registry,    \* MetricService: ordered bindings id -> accumulator
  gauges,      \* every Gauge created so far (index = identity)
  hists,       \* every Histogram created so far (index = identity)
  timers,      \* every interval timer created so far (index = identity)
  handlers,    \* every RuntimeMetrics 'data' closure created so far
  listeners,   \* RuntimeStatsService: 'data' listeners, in attach order
  v8,          \* fields of the V8Metric instance
  rt,          \* fields of the RuntimeMetrics instance
  transports,  \* every transport instance returned by createTransport
  proc,        \* "running" or "exited" (process.exit was called)
  lastOp,      \* the operation that ran last, what it logged, whether it threw
  ghost        \* history: last heap statistics read, gauges a tick has
               \* passed over, probes destroyed since their last init()

vars == <<services, registry, gauges, hists, timers, handlers, listeners,
          v8, rt, transports, proc, lastOp, ghost>>

----------------------------------------------------------------------------
(* Bounds of the model *)

\* timers + 'data' closures + transports created in one behaviour
MaxCalls == 2
\* observations one histogram takes before the model stops feeding it
MaxObs == 3
\* capacity of a histogram's retained sample window
WindowCap == 2
\* capacity of a transport's outbound buffer
QueueCap == 2
\* payloads submitted to one transport
MaxSends == 3

----------------------------------------------------------------------------
(* JavaScript values *)

\* a timer / handler / accumulator reference that is `undefined`
Undefined == 0

\* a value that is not a finite number (undefined, NaN, ...)
NotFinite == -1

Max(a, b) == IF a >= b THEN a ELSE b
Min(a, b) == IF a <= b THEN a ELSE b

----------------------------------------------------------------------------
(* ServiceManager, MetricService, Gauge: collaborators of the probes *)

\* ServiceManager.get(name): the service, or undefined when none is set
ServiceManagerGet(name) == services[name]

\* new Gauge(): holds no value until set() is called
NewGauge == [type |-> "unset", centi |-> 0]

\* Gauge.set(value): last write wins
GaugeSet(g, value) == value

\* Gauge.get()
GaugeGet(g) == g

\* MetricService.registerMetric as a bug would have it: always appends
RegisterMetricAppend(reg, binding) == Append(reg, binding)

\* MetricService.registerMetric(definition): one binding per id; a second
\* registration of an id replaces the binding in place
RegisterMetric(reg, binding) ==
  IF \E i \in DOMAIN reg : reg[i].id = binding.id
    THEN [i \in DOMAIN reg |->
            IF reg[i].id = binding.id THEN binding ELSE reg[i]]
    ELSE Append(reg, binding)

\* a gauge that neither the registry nor a metricStore references any more
Collected == [type |-> "collected", centi |-> 0]

\* the gauges after garbage collection: a gauge no binding of the registry
\* and no entry of the metricStore refers to is unreachable
CollectGauges(gs, reg, store) ==
  [g \in DOMAIN gs |->
     IF \/ \E i \in DOMAIN reg : reg[i].kind = "gauge" /\ reg[i].acc = g
        \/ \E k \in DOMAIN store : store[k] = g
       THEN gs[g] ELSE Collected]

\* MetricService.metric(definition): creates a gauge, binds it to the id and
\* returns it.  st = [registry, gauges]; the new gauge is the last of gauges.
MetricServiceMetric(st, def) ==
  [registry |-> RegisterMetric(st.registry,
                  [id |-> def.id, kind |-> "gauge",
                   acc |-> Len(st.gauges) + 1, measure |-> "value"]),
   gauges |-> Append(st.gauges, NewGauge)]

----------------------------------------------------------------------------
(* Timers of the runtime *)

\* setInterval(cb, ms): a new active timer that keeps the event loop alive
SetInterval(ts) == Append(ts, [active |-> TRUE, ref |-> TRUE])

\* timer.unref()
Unref(ts, t) == [ts EXCEPT ![t].ref = FALSE]

\* clearInterval(timer)
ClearInterval(ts, t) == [ts EXCEPT ![t].active = FALSE]

\* what one operation did: its name, its argument, the diagnostics it
\* logged and whether it ended by throwing
Op(name, log, threw) == [name |-> name, log |-> log, threw |-> threw]

Created == Len(timers) + Len(handlers) + Len(transports)

----------------------------------------------------------------------------
(* V8Metric *)

HeapFlags == {"heap_total_size", "heap_used_size", "heap_used_percent"}

V8DefaultOptions ==
  [new_space |-> FALSE, old_space |-> FALSE, map_space |-> FALSE,
   code_space |-> FALSE, large_object_space |-> FALSE,
   heap_total_size |-> TRUE, heap_used_size |-> TRUE,
   heap_used_percent |-> TRUE]

TIME_INTERVAL == 800

\* metricsDefinitions with the usage metric under the id of the total
metricsDefinitionsClash ==
  << [key |-> "total_heap_size", name |-> "Heap Size",
      id |-> "internal/v8/heap/total", unit |-> "MiB"],
     [key |-> "heap_used_percent", name |-> "Heap Usage",
      id |-> "internal/v8/heap/total", unit |-> "%"],
     [key |-> "used_heap_size", name |-> "Used Heap Size",
      id |-> "internal/v8/heap/used", unit |-> "MiB"] >>

metricsDefinitions ==
  << [key |-> "total_heap_size", name |-> "Heap Size",
      id |-> "internal/v8/heap/total", unit |-> "MiB"],
     [key |-> "heap_used_percent", name |-> "Heap Usage",
      id |-> "internal/v8/heap/usage", unit |-> "%"],
     [key |-> "used_heap_size", name |-> "Used Heap Size",
      id |-> "internal/v8/heap/used", unit |-> "MiB"] >>

V8MetricNames == {metricsDefinitions[i].key : i \in DOMAIN metricsDefinitions}

\* config[key] of a JavaScript object: "true", "false" or "undefined"
Flag(flags, key) ==
  IF key \in DOMAIN flags
    THEN (IF flags[key] THEN "true" ELSE "false")
    ELSE "undefined"

\* v8.hasOwnProperty('getHeapStatistics')
HasGetHeapStatistics == TRUE

\* the configs init() is called with
BoolConfigs == {[tag |-> "false"], [tag |-> "true"], [tag |-> "undefined"]}

V8Configs ==
  BoolConfigs \cup
  {[tag |-> "object", flags |-> V8DefaultOptions]} \cup
  {[tag |-> "object", flags |-> [V8DefaultOptions EXCEPT ![k] = FALSE]] :
     k \in HeapFlags}

MiB == 1048576

\* the heap statistics v8.getHeapStatistics() returns, in bytes
HeapStatistics ==
  {[total_heap_size |-> t, used_heap_size |-> u] :
     t \in {2 * MiB, 3 * MiB}, u \in {131072, 2 * MiB}}

\* (val / 1024 / 1024).toFixed(2) cutting the digits after the second
formatMiBytesTruncate(val) ==
  [type |-> "string",
   centi |-> (val \div MiB) * 100 + ((val % MiB) * 100) \div MiB]

\* (val / 1024 / 1024).toFixed(2): a string, two decimals, half rounds up
formatMiBytes(val) ==
  [type |-> "string",
   centi |-> (val \div MiB) * 100 + ((val % MiB) * 200 + MiB) \div (2 * MiB)]

\* parseFloat((used / total * 100).toFixed(2))
HeapUsage(stats) ==
  LET used == stats.used_heap_size
      total == stats.total_heap_size
  IN IF total = 0
       THEN [type |-> "number", centi |-> NotFinite]
       ELSE LET q0 == used \div total
                r0 == used % total
                q1 == (r0 * 100) \div total
                r1 == (r0 * 100) % total
                q2 == (r1 * 100) \div total
                r2 == (r1 * 100) % total
                up == IF 2 * r2 >= total THEN 1 ELSE 0
            IN [type |-> "number",
                centi |-> q0 * 10000 + q1 * 100 + q2 + up]

\* lines 75-81: the registration loop, over metricsDefinitions from index i.
\* st = [registry, gauges, metricStore]
RECURSIVE V8RegisterFrom(_, _, _)
V8RegisterFrom(i, flags, st) ==
  IF i > Len(metricsDefinitions) THEN st
  ELSE LET def == metricsDefinitions[i]
       IN IF Flag(flags, def.key) = "false"
            THEN V8RegisterFrom(i + 1, flags, st)
            ELSE LET m == MetricServiceMetric(st, def)
                 IN V8RegisterFrom(i + 1, flags,
                      [registry |-> m.registry, gauges |-> m.gauges,
                       metricStore |->
                         [st.metricStore EXCEPT ![def.key] = Len(m.gauges)]])

\* V8Metric.init without the unref() call
V8StartTimerNoUnref(ts) == SetInterval(ts)

\* lines 83-100: this.timer = setInterval(...); this.timer.unref()
V8StartTimer(ts) == Unref(SetInterval(ts), Len(ts) + 1)

\* V8Metric.init(config)
V8Init(config) ==
  /\ proc = "running"
  /\ Created < MaxCalls
  /\ UNCHANGED <<services, hists, handlers, listeners, rt, transports, proc>>
  /\ IF config.tag = "false"
       THEN /\ lastOp' = Op("V8Metric.init", <<>>, FALSE)
            /\ UNCHANGED <<registry, gauges, timers, v8, ghost>>
       ELSE LET flags == IF config.tag = "object" THEN config.flags
                         ELSE V8DefaultOptions
            IN /\ ghost' = [ghost EXCEPT !.v8Destroyed = FALSE]
               /\ IF ~ServiceManagerGet("metrics")
                    THEN /\ v8' = [v8 EXCEPT !.metricService = FALSE]
                         /\ lastOp' = Op("V8Metric.init", <<"Failed to load metric service">>,
                                         FALSE)
                         /\ UNCHANGED <<registry, gauges, timers>>
                    ELSE IF ~HasGetHeapStatistics
                    THEN /\ v8' = [v8 EXCEPT !.metricService = TRUE]
                         /\ lastOp' = Op("V8Metric.init", <<"init",
                                "V8.getHeapStatistics is not available, aborting">>,
                              FALSE)
                         /\ UNCHANGED <<registry, gauges, timers>>
                    ELSE LET st == V8RegisterFrom(1, flags,
                                     [registry |-> registry, gauges |-> gauges,
                                      metricStore |-> v8.metricStore])
                         IN /\ registry' = st.registry
                            /\ gauges' = CollectGauges(st.gauges, st.registry,
                                                       st.metricStore)
                            /\ timers' = V8StartTimer(timers)
                            /\ v8' = [metricService |-> TRUE,
                                      metricStore |-> st.metricStore,
                                      timer |-> Len(timers) + 1]
                            /\ lastOp' = Op("V8Metric.init", <<"init">>, FALSE)

\* lines 87-89: the loop writes the gauge of key when stats[key] is a
\* number and the metricStore holds a gauge under key
LoopWrites(key, stats) ==
  key \in DOMAIN stats /\ v8.metricStore[key] # Undefined

\* lines 86-91: the update loop of the interval callback, from index i
RECURSIVE V8UpdateFrom(_, _, _)
V8UpdateFrom(i, stats, gs) ==
  IF i > Len(metricsDefinitions) THEN gs
  ELSE LET key == metricsDefinitions[i].key
           g == v8.metricStore[key]
       IN IF ~LoopWrites(key, stats)
            THEN V8UpdateFrom(i + 1, stats, gs)
            ELSE V8UpdateFrom(i + 1, stats,
                   [gs EXCEPT ![g] = GaugeSet(gs[g], formatMiBytes(stats[key]))])

\* the heap usage gauge written only while it is unset
V8UpdateUsageOnce(stats, gs) ==
  LET usageMetric == v8.metricStore["heap_used_percent"]
  IN IF usageMetric # Undefined /\ gs[usageMetric].type = "unset"
       THEN [gs EXCEPT ![usageMetric] = GaugeSet(gs[usageMetric], HeapUsage(stats))]
       ELSE gs

\* lines 94-95: the usage gauge is written when the metricStore holds it
UsageWrites == v8.metricStore["heap_used_percent"] # Undefined

\* lines 92-97: the heap usage gauge
V8UpdateUsage(stats, gs) ==
  LET usageMetric == v8.metricStore["heap_used_percent"]
  IN IF UsageWrites
       THEN [gs EXCEPT ![usageMetric] = GaugeSet(gs[usageMetric], HeapUsage(stats))]
       ELSE gs

\* the callback of interval timer t fires (lines 83-98)
V8Tick(t, stats) ==
  /\ proc = "running"
  /\ t \in DOMAIN timers
  /\ timers[t].active
  /\ gauges' = V8UpdateUsage(stats, V8UpdateFrom(1, stats, gauges))
  /\ ghost' = [ghost EXCEPT
                 !.lastStats = stats,
                 !.ticked = @ \cup ({v8.metricStore[k] : k \in V8MetricNames}
                                      \ {Undefined})]
  /\ lastOp' = Op("V8Metric.tick", <<>>, FALSE)
  /\ UNCHANGED <<services, registry, hists, timers, handlers, listeners,
                 v8, rt, transports, proc>>

\* V8Metric.destroy()
V8Destroy ==
  /\ proc = "running"
  /\ timers' = IF v8.timer # Undefined THEN ClearInterval(timers, v8.timer)
               ELSE timers
  /\ ghost' = [ghost EXCEPT !.v8Destroyed = TRUE]
  /\ lastOp' = Op("V8Metric.destroy", <<"destroy">>, FALSE)
  /\ UNCHANGED <<services, registry, gauges, hists, handlers, listeners,
                 v8, rt, transports, proc>>

----------------------------------------------------------------------------
(* Histogram and the snapshot of the MetricService *)

\* new Histogram(): an empty sample window.  seen is history: the finite
\* values observed so far.
NewHistogram == [samples |-> <<>>, count |-> 0, seen |-> {}]

\* Histogram.update(value): a value that is not a finite number is counted
\* and not folded in; a full window drops its oldest sample
HistogramUpdate(h, value) ==
  IF value = NotFinite
    THEN [h EXCEPT !.count = @ + 1]
    ELSE [samples |-> IF Len(h.samples) < WindowCap
                        THEN Append(h.samples, value)
                        ELSE Append(Tail(h.samples), value),
          count |-> h.count + 1,
          seen |-> h.seen \cup {value}]

\* s with x inserted before its first element greater than x (s is sorted)
RECURSIVE InsertSorted(_, _)
InsertSorted(s, x) ==
  IF s = <<>> THEN <<x>>
  ELSE IF x <= Head(s) THEN <<x>> \o s
  ELSE <<Head(s)>> \o InsertSorted(Tail(s), x)

RECURSIVE SortValues(_)
SortValues(s) == IF s = <<>> THEN <<>> ELSE InsertSorted(SortValues(Tail(s)), Head(s))

NoData == [type |-> "nodata", centi |-> 0]

Number(centi) == [type |-> "number", centi |-> centi]

\* Histogram.percentiles([rank/100])[rank/100]: the window sorted, linear
\* interpolation between order statistics; in hundredths
Percentile(h, rank) ==
  LET values == SortValues(h.samples)
      n == Len(values)
      pos == rank * (n + 1)
      k == pos \div 100
      f == pos % 100
  IN IF n = 0 THEN NoData
     ELSE IF pos < 100 THEN Number(100 * values[1])
     ELSE IF k >= n THEN Number(100 * values[n])
     ELSE Number(100 * values[k] + f * (values[k + 1] - values[k]))

RECURSIVE SumSeq(_)
SumSeq(s) == IF s = <<>> THEN 0 ELSE Head(s) + SumSeq(Tail(s))

\* the mean of the window (MetricMeasurements.mean); in hundredths
Mean(h) ==
  IF h.samples = <<>> THEN NoData
  ELSE Number((100 * SumSeq(h.samples)) \div Len(h.samples))

\* the p50 handler reading the histogram declared after its own
HandlerP50Wrong(reg, hs) ==
  Percentile(hs[IF reg.acc + 1 \in DOMAIN hs THEN reg.acc + 1 ELSE reg.acc], 50)

\* part_000 lines 66-69: handler of the p50 metrics
HandlerP50(reg, hs) == Percentile(hs[reg.acc], 50)

\* part_000 lines 78-81: handler of the p95 metrics
HandlerP95(reg, hs) == Percentile(hs[reg.acc], 95)

\* the value a snapshot reports for one binding
MetricValue(reg, gs, hs) ==
  CASE reg.measure = "value" -> GaugeGet(gs[reg.acc])
    [] reg.measure = "p50" -> HandlerP50(reg, hs)
    [] reg.measure = "p95" -> HandlerP95(reg, hs)
    [] reg.measure = "mean" -> Mean(hs[reg.acc])

\* MetricService snapshot: one {id, value} per binding, in binding order
Snapshot ==
  [i \in DOMAIN registry |->
     [id |-> registry[i].id, value |-> MetricValue(registry[i], gauges, hists)]]

\* MetricService.histogram(definition): creates a histogram, binds it to the
\* id and returns it.  st = [registry, hists]
MetricServiceHistogram(st, id) ==
  [registry |-> RegisterMetric(st.registry,
                  [id |-> id, kind |-> "histogram",
                   acc |-> Len(st.hists) + 1, measure |-> "mean"]),
   hists |-> Append(st.hists, NewHistogram)]

----------------------------------------------------------------------------
(* RuntimeMetrics *)

RtDefaultOptions ==
  [gcNewPause |-> TRUE, gcOldPause |-> TRUE,
   pageFaults |-> TRUE, contextSwitchs |-> TRUE]

RtFlags == {"gcNewPause", "gcOldPause", "pageFaults", "contextSwitchs"}

RtConfigs ==
  BoolConfigs \cup
  {[tag |-> "object", flags |-> RtDefaultOptions]} \cup
  {[tag |-> "object", flags |-> [RtDefaultOptions EXCEPT ![k] = FALSE]] :
     k \in RtFlags}

\* keys of this.metrics
RtMetricKeys ==
  {"volontarySwitchs", "inVolontarySwitchs", "softPageFault", "hardPageFault"}

\* lines 57-83 / 85-111: new Histogram(), registered under the p50 and p95
\* ids when the flag is true.  st = [registry, hists, metrics]
RtRegisterGc(st, enabled, idP50, idP95) ==
  LET h == Len(st.hists) + 1
      hs == Append(st.hists, NewHistogram)
  IN IF enabled
       THEN [st EXCEPT
               !.hists = hs,
               !.registry =
                  RegisterMetric(
                    RegisterMetric(st.registry,
                      [id |-> idP50, kind |-> "histogram", acc |-> h,
                       measure |-> "p50"]),
                    [id |-> idP95, kind |-> "histogram", acc |-> h,
                     measure |-> "p95"])]
       ELSE [st EXCEPT !.hists = hs]

\* lines 113-126 / 128-141: two metricService.histogram() calls, stored in
\* this.metrics under keyA and keyB, when the flag is true
RtRegisterPair(st, enabled, idA, keyA, idB, keyB) ==
  IF ~enabled THEN st
  ELSE LET a == MetricServiceHistogram([registry |-> st.registry,
                                        hists |-> st.hists], idA)
           b == MetricServiceHistogram(a, idB)
       IN [registry |-> b.registry,
           hists |-> b.hists,
           metrics |-> [st.metrics EXCEPT ![keyA] = Len(a.hists),
                                          ![keyB] = Len(b.hists)]]

\* lines 57-141 of init
RtRegisterAll(flags, st) ==
  LET s1 == RtRegisterGc(st, Flag(flags, "gcNewPause") = "true",
              "internal/v8/gc/new/pause/p50", "internal/v8/gc/new/pause/p95")
      s2 == RtRegisterGc(s1, Flag(flags, "gcOldPause") = "true",
              "internal/v8/gc/old/pause/p50", "internal/v8/gc/old/pause/p95")
      s3 == RtRegisterPair(s2, Flag(flags, "contextSwitchs") = "true",
              "internal/uv/cpu/contextswitch/volontary", "volontarySwitchs",
              "internal/uv/cpu/contextswitch/involontary", "inVolontarySwitchs")
      s4 == RtRegisterPair(s3, Flag(flags, "pageFaults") = "true",
              "internal/uv/memory/pagefault/minor", "softPageFault",
              "internal/uv/memory/pagefault/major", "hardPageFault")
  IN [new |-> Len(st.hists) + 1, old |-> Len(s1.hists) + 1, st |-> s4]

\* init() going on without the runtime-stats service
RuntimeStatsFound == FALSE

\* line 53: this.runtimeStatsService === undefined
RuntimeStatsMissing == ~ServiceManagerGet("runtimeStats")

\* EventEmitter.on('data', listener)
On(ls, h) == Append(ls, h)

\* init() taking a missing config for an object without flags
RtOptionsNoDefault(config) ==
  CASE config.tag = "object" -> config.flags
    [] config.tag = "true" -> RtDefaultOptions
    [] OTHER -> [k \in RtFlags |-> FALSE]

\* lines 42-47: init(), init(true) run with defaultOptions
RtOptions(config) ==
  IF config.tag = "object" THEN config.flags ELSE RtDefaultOptions

\* RuntimeMetrics.init(config)
RuntimeInit(config) ==
  /\ proc = "running"
  /\ Created < MaxCalls
  /\ UNCHANGED <<services, gauges, timers, v8, transports, proc>>
  /\ IF config.tag = "false"
       THEN /\ lastOp' = Op("RuntimeMetrics.init", <<>>, FALSE)
            /\ UNCHANGED <<registry, hists, handlers, listeners, rt, ghost>>
       ELSE LET flags == RtOptions(config)
            IN /\ ghost' = [ghost EXCEPT !.rtDestroyed = FALSE]
               /\ IF ~ServiceManagerGet("metrics")
                    THEN /\ rt' = [rt EXCEPT !.metricService = FALSE]
                         /\ lastOp' = Op("RuntimeMetrics.init", <<"Failed to load metric service">>,
                                         FALSE)
                         /\ UNCHANGED <<registry, hists, handlers, listeners>>
                    ELSE IF RuntimeStatsMissing
                    THEN /\ rt' = [rt EXCEPT !.metricService = TRUE,
                                             !.runtimeStatsService = FALSE]
                         /\ lastOp' = Op("RuntimeMetrics.init", <<"Failed to load runtime stats service">>,
                                         FALSE)
                         /\ UNCHANGED <<registry, hists, handlers, listeners>>
                    ELSE LET r == RtRegisterAll(flags,
                                    [registry |-> registry, hists |-> hists,
                                     metrics |-> rt.metrics])
                             handle == Len(handlers) + 1
                         IN /\ registry' = r.st.registry
                            /\ hists' = r.st.hists
                            /\ handlers' = Append(handlers,
                                 [newHistogram |-> r.new, oldHistogram |-> r.old])
                            /\ listeners' = On(listeners, handle)
                            /\ rt' = [metricService |-> TRUE,
                                      runtimeStatsService |-> TRUE,
                                      handle |-> handle,
                                      metrics |-> r.st.metrics]
                            /\ lastOp' = Op("RuntimeMetrics.init", <<"init">>, FALSE)

\* the values the runtime-stats service emits on 'data'
GcObject(newPause, oldPause) ==
  [kind |-> "object", newPause |-> newPause, oldPause |-> oldPause]

GcOther(kind) == [kind |-> kind, newPause |-> NotFinite, oldPause |-> NotFinite]

UsageObject(nvcsw, nivcsw, minflt, majflt) ==
  [kind |-> "object", ru_nvcsw |-> nvcsw, ru_nivcsw |-> nivcsw,
   ru_minflt |-> minflt, ru_majflt |-> majflt]

UsageOther(kind) ==
  [kind |-> kind, ru_nvcsw |-> NotFinite, ru_nivcsw |-> NotFinite,
   ru_minflt |-> NotFinite, ru_majflt |-> NotFinite]

StatsObject(gc, usage) == [kind |-> "object", gc |-> gc, usage |-> usage]

StatsOther(kind) ==
  [kind |-> kind, gc |-> GcOther("undefined"), usage |-> UsageOther("undefined")]

StatsInputs ==
  { StatsOther("null"),
    StatsOther("number"),
    StatsObject(GcOther("undefined"), UsageOther("undefined")),
    StatsObject(GcOther("null"), UsageOther("undefined")),
    StatsObject(GcObject(2, 5), UsageOther("undefined")),
    StatsObject(GcObject(2, 5), UsageOther("null")),
    StatsObject(GcObject(2, NotFinite), UsageObject(3, 1, 4, 0)) }

\* typeof x === 'object' (true of null)
TypeofObject(x) == x.kind \in {"object", "null"}

\* reading a property of x throws a TypeError
PropertyThrows(x) == x.kind \in {"null", "undefined"}

UsageFields ==
  << [key |-> "volontarySwitchs", field |-> "ru_nvcsw"],
     [key |-> "inVolontarySwitchs", field |-> "ru_nivcsw"],
     [key |-> "softPageFault", field |-> "ru_minflt"],
     [key |-> "hardPageFault", field |-> "ru_majflt"] >>

\* lines 148-163: the four guarded updates, from index i.
\* res = [hists, threw]
RECURSIVE HandleUsageFrom(_, _, _)
HandleUsageFrom(i, usage, res) ==
  IF i > Len(UsageFields) \/ res.threw THEN res
  ELSE LET m == rt.metrics[UsageFields[i].key]
       IN IF m = Undefined THEN HandleUsageFrom(i + 1, usage, res)
          ELSE IF PropertyThrows(usage) THEN [res EXCEPT !.threw = TRUE]
          ELSE HandleUsageFrom(i + 1, usage,
                 [res EXCEPT !.hists[m] =
                    HistogramUpdate(@, usage[UsageFields[i].field])])

\* lines 143-164: the 'data' closure h applied to stats.  [hists, threw]
Handle(h, stats, hs) ==
  IF ~TypeofObject(stats) THEN [hists |-> hs, threw |-> FALSE]
  ELSE IF PropertyThrows(stats) THEN [hists |-> hs, threw |-> TRUE]
  ELSE IF ~TypeofObject(stats.gc) THEN [hists |-> hs, threw |-> FALSE]
  ELSE IF PropertyThrows(stats.gc) THEN [hists |-> hs, threw |-> TRUE]
  ELSE LET hs1 == [hs EXCEPT
                     ![handlers[h].newHistogram] =
                        HistogramUpdate(@, stats.gc.newPause)]
           hs2 == [hs1 EXCEPT
                     ![handlers[h].oldHistogram] =
                        HistogramUpdate(@, stats.gc.oldPause)]
       IN IF ~TypeofObject(stats.usage)
            THEN [hists |-> hs2, threw |-> FALSE]
            ELSE HandleUsageFrom(1, stats.usage,
                                 [hists |-> hs2, threw |-> FALSE])

\* EventEmitter.emit('data', stats): the listeners in attach order, from
\* index i; a listener that throws ends the emit
RECURSIVE EmitFrom(_, _, _)
EmitFrom(i, stats, res) ==
  IF i > Len(listeners) \/ res.threw THEN res
  ELSE EmitFrom(i + 1, stats, Handle(listeners[i], stats, res.hists))

\* the runtime-stats service emits 'data'
RuntimeStatsData(stats) ==
  /\ proc = "running"
  /\ \A i \in DOMAIN hists : hists[i].count < MaxObs
  /\ LET res == EmitFrom(1, stats, [hists |-> hists, threw |-> FALSE])
     IN /\ hists' = res.hists
        /\ lastOp' = Op("RuntimeStats.data", <<>>, res.threw)
  /\ UNCHANGED <<services, registry, gauges, timers, handlers, listeners,
                 v8, rt, transports, proc, ghost>>

\* s without its last element equal to x
RECURSIVE RemoveLast(_, _)
RemoveLast(s, x) ==
  IF s = <<>> THEN <<>>
  ELSE IF s[Len(s)] = x THEN SubSeq(s, 1, Len(s) - 1)
  ELSE Append(RemoveLast(SubSeq(s, 1, Len(s) - 1), x), s[Len(s)])

\* EventEmitter.removeListener('data', listener): throws a TypeError when
\* listener is not a function
RemoveListener(ls, h) == RemoveLast(ls, h)

\* RuntimeMetrics.destroy()
RuntimeDestroy ==
  /\ proc = "running"
  /\ IF rt.runtimeStatsService /\ rt.handle = Undefined
       THEN /\ lastOp' = Op("RuntimeMetrics.destroy", <<>>, TRUE)
            /\ UNCHANGED listeners
       ELSE /\ listeners' = IF rt.runtimeStatsService
                              THEN RemoveListener(listeners, rt.handle)
                              ELSE listeners
            /\ lastOp' = Op("RuntimeMetrics.destroy", <<"destroy">>,
                            FALSE)
  /\ ghost' = [ghost EXCEPT !.rtDestroyed = TRUE]
  /\ UNCHANGED <<services, registry, gauges, hists, timers, handlers,
                 v8, rt, transports, proc>>

----------------------------------------------------------------------------
(* ServiceManager *)

ServiceNames == {"metrics", "runtimeStats"}

\* ServiceManager.set(name, service): the composition root registers a
\* service; it stays registered
ServiceManagerSet(name) ==
  /\ proc = "running"
  /\ ~services[name]
  /\ services' = [services EXCEPT ![name] = TRUE]
  /\ lastOp' = Op("ServiceManager.set", <<>>, FALSE)
  /\ UNCHANGED <<registry, gauges, hists, timers, handlers, listeners,
                 v8, rt, transports, proc, ghost>>

----------------------------------------------------------------------------
(* Transport: createTransport and the channel behind the Transport interface *)

TransportNames == {"ipc", "websocket"}

\* the configs createTransport is called with
TransportConfigs ==
  {[serverName |-> "a", sendLogs |-> FALSE],
   [serverName |-> "b", sendLogs |-> TRUE]}

NoConfig == [serverName |-> "", sendLogs |-> FALSE]

\* new IPCTransport(): a channel that is not connected and holds nothing
NewIPCTransport ==
  [name |-> "ipc", config |-> NoConfig, inits |-> 0,
   state |-> "disconnected", queue |-> <<>>, delivered |-> <<>>,
   reconnect |-> FALSE, sent |-> 0]

\* Transport.init(config): keeps the config and starts connecting
TransportInit(tr, config) ==
  [tr EXCEPT !.config = config, !.inits = @ + 1, !.state = "connecting"]

\* the 'ipc' case without the init() call
CreateIpcNoInit(config) == NewIPCTransport

\* lines 65-69: case 'ipc'
CreateIpc(config) == TransportInit(NewIPCTransport, config)

\* every name falls through the switch
HasImplementationNone(name) == FALSE

\* line 64-65: the cases of the switch
HasImplementation(name) == name = "ipc"

\* createTransport(name, config)
createTransport(name, config) ==
  /\ proc = "running"
  /\ Created < MaxCalls
  /\ IF HasImplementation(name)
       THEN /\ transports' = Append(transports, CreateIpc(config))
            /\ lastOp' = Op("createTransport", <<>>, FALSE)
            /\ UNCHANGED proc
       ELSE /\ lastOp' = Op("createTransport",
                            <<"Failed to find transport implementation", name>>,
                            FALSE)
            /\ proc' = "exited"
            /\ UNCHANGED transports
  /\ UNCHANGED <<services, registry, gauges, hists, timers, handlers,
                 listeners, v8, rt, ghost>>

\* payloads submitted so far, over all transports
Submitted == SumSeq([i \in DOMAIN transports |-> transports[i].sent])

\* the buffer with a payload added, dropping the newest when it is full
BufferPushDropNewest(queue, payload) ==
  IF Len(queue) < QueueCap THEN Append(queue, payload) ELSE queue

\* the bounded buffer with a payload added: a full buffer drops its oldest
BufferPush(queue, payload) ==
  IF Len(queue) < QueueCap THEN Append(queue, payload)
  ELSE Append(Tail(queue), payload)

\* Transport.send(channel, payload) on transport i; the payload is numbered
\* by its submission.  Delivered at once when connected, buffered while
\* disconnected or connecting, discarded after destroy()
TransportSend(i) ==
  /\ proc = "running"
  /\ i \in DOMAIN transports
  /\ Submitted < MaxSends
  /\ LET tr == transports[i]
         payload == tr.sent + 1
     IN transports' = [transports EXCEPT ![i] =
          CASE tr.state = "connected" ->
                 [tr EXCEPT !.sent = payload,
                            !.delivered = Append(@, payload)]
            [] tr.state = "closing" -> [tr EXCEPT !.sent = payload]
            [] OTHER ->
                 [tr EXCEPT !.sent = payload,
                            !.queue = BufferPush(@, payload)]]
  /\ lastOp' = Op("Transport.send", <<>>, FALSE)
  /\ UNCHANGED <<services, registry, gauges, hists, timers, handlers,
                 listeners, v8, rt, proc, ghost>>

\* the connection attempt of transport i succeeds: the buffer drains in order
TransportConnected(i) ==
  /\ proc = "running"
  /\ i \in DOMAIN transports
  /\ transports[i].state = "connecting"
  /\ transports' = [transports EXCEPT
                      ![i].state = "connected",
                      ![i].delivered = @ \o transports[i].queue,
                      ![i].queue = <<>>]
  /\ lastOp' = Op("Transport.connected", <<>>, FALSE)
  /\ UNCHANGED <<services, registry, gauges, hists, timers, handlers,
                 listeners, v8, rt, proc, ghost>>

\* the connection of transport i fails or is lost: back to disconnected,
\* with a reconnect attempt scheduled
TransportDisconnected(i) ==
  /\ proc = "running"
  /\ i \in DOMAIN transports
  /\ transports[i].state \in {"connecting", "connected"}
  /\ transports' = [transports EXCEPT ![i].state = "disconnected",
                                      ![i].reconnect = TRUE]
  /\ lastOp' = Op("Transport.disconnected", <<"connection error">>, FALSE)
  /\ UNCHANGED <<services, registry, gauges, hists, timers, handlers,
                 listeners, v8, rt, proc, ghost>>

\* the scheduled reconnect attempt of transport i runs
TransportReconnect(i) ==
  /\ proc = "running"
  /\ i \in DOMAIN transports
  /\ transports[i].reconnect
  /\ transports[i].state = "disconnected"
  /\ transports' = [transports EXCEPT ![i].state = "connecting",
                                      ![i].reconnect = FALSE]
  /\ lastOp' = Op("Transport.reconnect", <<>>, FALSE)
  /\ UNCHANGED <<services, registry, gauges, hists, timers, handlers,
                 listeners, v8, rt, proc, ghost>>

\* destroy() that leaves a scheduled reconnect attempt in place
DestroyChannelKeepReconnect(tr) ==
  [tr EXCEPT !.state = "closing", !.queue = <<>>]

\* Transport.destroy(): discards the buffer, cancels the reconnect attempt
\* and closes; in every state, also when already closing
DestroyChannel(tr) ==
  [tr EXCEPT !.state = "closing", !.queue = <<>>, !.reconnect = FALSE]

\* Transport.destroy() on transport i
TransportDestroy(i) ==
  /\ proc = "running"
  /\ i \in DOMAIN transports
  /\ transports' = [transports EXCEPT ![i] = DestroyChannel(@)]
  /\ lastOp' = Op("Transport.destroy", <<>>, FALSE)
  /\ UNCHANGED <<services, registry, gauges, hists, timers, handlers,
                 listeners, v8, rt, proc, ghost>>

----------------------------------------------------------------------------
(* The probes and their environment *)

Init ==
  /\ services = [n \in ServiceNames |-> FALSE]
  /\ registry = <<>>
  /\ gauges = <<>>
  /\ hists = <<>>
  /\ timers = <<>>
  /\ handlers = <<>>
  /\ listeners = <<>>
  /\ v8 = [metricService |-> FALSE,
           metricStore |-> [k \in V8MetricNames |-> Undefined],
           timer |-> Undefined]
  /\ rt = [metricService |-> FALSE, runtimeStatsService |-> FALSE,
           handle |-> Undefined,
           metrics |-> [k \in RtMetricKeys |-> Undefined]]
  /\ transports = <<>>
  /\ proc = "running"
  /\ lastOp = Op("new", <<>>, FALSE)
  /\ ghost = [lastStats |-> [total_heap_size |-> 0, used_heap_size |-> 0],
              ticked |-> {}, v8Destroyed |-> FALSE, rtDestroyed |-> FALSE]

CreateTransportSome ==
  \E name \in TransportNames, config \in TransportConfigs :
    createTransport(name, config)

\* the whole program: both probes, their environment and the transports
Next ==
  \/ \E name \in ServiceNames : ServiceManagerSet(name)
  \/ \E config \in V8Configs : V8Init(config)
  \/ \E t \in DOMAIN timers, stats \in HeapStatistics : V8Tick(t, stats)
  \/ V8Destroy
  \/ \E config \in RtConfigs : RuntimeInit(config)
  \/ \E stats \in StatsInputs : RuntimeStatsData(stats)
  \/ RuntimeDestroy
  \/ CreateTransportSome
  \/ \E i \in DOMAIN transports : TransportSend(i)
  \/ \E i \in DOMAIN transports : TransportConnected(i)
  \/ \E i \in DOMAIN transports : TransportDisconnected(i)
  \/ \E i \in DOMAIN transports : TransportReconnect(i)
  \/ \E i \in DOMAIN transports : TransportDestroy(i)

Spec == Init /\ [][Next]_vars

\* construction and teardown only: no timer tick, no 'data' event, no
\* traffic on the transports
NextLifecycle ==
  \/ \E name \in ServiceNames : ServiceManagerSet(name)
  \/ \E config \in V8Configs : V8Init(config)
  \/ V8Destroy
  \/ \E config \in RtConfigs : RuntimeInit(config)
  \/ RuntimeDestroy
  \/ CreateTransportSome

SpecLifecycle == Init /\ [][NextLifecycle]_vars

\* the V8Metric probe and its timers
NextV8 ==
  \/ \E name \in ServiceNames : ServiceManagerSet(name)
  \/ \E config \in V8Configs : V8Init(config)
  \/ \E t \in DOMAIN timers, stats \in HeapStatistics : V8Tick(t, stats)
  \/ V8Destroy

SpecV8 == Init /\ [][NextV8]_vars

\* the RuntimeMetrics probe and the runtime-stats feed
NextRuntime ==
  \/ \E name \in ServiceNames : ServiceManagerSet(name)
  \/ \E config \in RtConfigs : RuntimeInit(config)
  \/ \E stats \in StatsInputs : RuntimeStatsData(stats)
  \/ RuntimeDestroy

SpecRuntime == Init /\ [][NextRuntime]_vars

\* the GC pause histograms under pauses of several lengths
PausePairs == {<<0, 100>>, <<50, 10>>, <<100, 50>>, <<NotFinite, 30>>}

PauseStats ==
  {StatsObject(GcObject(p[1], p[2]), UsageOther("undefined")) : p \in PausePairs}

HistConfigs ==
  {[tag |-> "true"],
   [tag |-> "object", flags |-> [RtDefaultOptions EXCEPT !["gcNewPause"] = FALSE]]}

NextHist ==
  \/ \E name \in ServiceNames : ServiceManagerSet(name)
  \/ \E config \in HistConfigs : RuntimeInit(config)
  \/ \E stats \in PauseStats : RuntimeStatsData(stats)

SpecHist == Init /\ [][NextHist]_vars

\* the transports: creation, connection, traffic, teardown
NextTransport ==
  \/ CreateTransportSome
  \/ \E i \in DOMAIN transports : TransportSend(i)
  \/ \E i \in DOMAIN transports : TransportConnected(i)
  \/ \E i \in DOMAIN transports : TransportDisconnected(i)
  \/ \E i \in DOMAIN transports : TransportReconnect(i)
  \/ \E i \in DOMAIN transports : TransportDestroy(i)

SpecTransport == Init /\ [][NextTransport]_vars

----------------------------------------------------------------------------
(* Properties *)

ActiveTimers == {t \in DOMAIN timers : timers[t].active}

ProbeOps == {"V8Metric.init", "V8Metric.destroy",
             "RuntimeMetrics.init", "RuntimeMetrics.destroy"}

\* C1: once destroy() of a probe has returned (and until its next init()),
\* no interval timer of the probe is still running and no 'data' listener
\* of the probe is still attached to the runtime-stats service.
C1_DestroyStopsAllCallbacks ==
  /\ ghost.v8Destroyed => ActiveTimers = {}
  /\ ghost.rtDestroyed => listeners = <<>>

\* C2: an init() that finds a required service missing logs the diagnostic
\* and returns without throwing, having registered no metric, started no
\* timer and attached no listener; no destroy() throws.
C2_MissingServiceIsNoOp ==
  [][ /\ \A config \in V8Configs :
           (V8Init(config) /\ config.tag # "false"
              /\ ~ServiceManagerGet("metrics"))
           => /\ lastOp'.log = <<"Failed to load metric service">>
              /\ ~lastOp'.threw
              /\ UNCHANGED <<registry, gauges, hists, timers, handlers,
                             listeners>>
      /\ \A config \in RtConfigs :
           (RuntimeInit(config) /\ config.tag # "false"
              /\ (~ServiceManagerGet("metrics")
                    \/ ~ServiceManagerGet("runtimeStats")))
           => /\ lastOp'.log \in {<<"Failed to load metric service">>,
                                   <<"Failed to load runtime stats service">>}
              /\ ~lastOp'.threw
              /\ UNCHANGED <<registry, gauges, hists, timers, handlers,
                             listeners>>
      /\ lastOp'.name \in {"V8Metric.destroy", "RuntimeMetrics.destroy"}
           => ~lastOp'.threw
    ]_vars

\* C2 witness: destroy() has run after a RuntimeMetrics.init() that found
\* the metric service and missed the runtime-stats service
C2_Witness ==
  /\ lastOp.name = "RuntimeMetrics.destroy"
  /\ rt.metricService /\ ~rt.runtimeStatsService
  /\ registry = <<>> /\ listeners = <<>>

\* C3 (as claimed): the process never reaches the terminated state.
C3_ProcessNeverExits == proc = "running"

\* C3 (amended): the process is terminated only by createTransport called
\* with a name that has no transport implementation, after the error was
\* logged; createTransport('ipc') and every probe init()/destroy() leave
\* the process running and do not throw.
C3_ExitOnlyOnUnknownTransport ==
  /\ proc = "exited" =>
       /\ lastOp.name = "createTransport"
       /\ \E name \in TransportNames \ {"ipc"} :
            lastOp.log = <<"Failed to find transport implementation", name>>
  /\ lastOp.name \in ProbeOps => (proc = "running" /\ ~lastOp.threw)

C3_Witness == proc = "exited"

\* C4: createTransport('ipc', config) hands out a new transport on which
\* init has run exactly once, with the given config; the transports handed
\* out before are left as they were.
C4_IpcInitialisedOnce ==
  [][ \A config \in TransportConfigs :
        createTransport("ipc", config)
        => /\ Len(transports') = Len(transports) + 1
           /\ transports'[Len(transports')].inits = 1
           /\ transports'[Len(transports')].config = config
           /\ \A i \in DOMAIN transports :
                /\ transports'[i] = transports[i]
                /\ transports[i].inits = 1
    ]_vars

C4_Witness ==
  /\ lastOp.name = "createTransport"
  /\ Len(transports) = 2
  /\ transports[1].config # transports[2].config

\* what a tick reading stats writes to the gauge of metric key
TickValue(key, stats) ==
  IF key = "heap_used_percent" THEN HeapUsage(stats)
  ELSE formatMiBytes(stats[key])

\* C5: every gauge held by the V8Metric probe reads as unset until a tick
\* has run since the gauge was created, and afterwards as exactly the value
\* the most recent tick computed from the heap statistics it read.
C5_GaugeLastWriteWins ==
  \A key \in V8MetricNames :
    LET g == v8.metricStore[key]
    IN g # Undefined =>
         GaugeGet(gauges[g]) = IF g \in ghost.ticked
                                 THEN TickValue(key, ghost.lastStats)
                                 ELSE NewGauge

\* C5 witness: the usage gauge holds the value of a tick
C5_Witness ==
  /\ v8.metricStore["heap_used_percent"] \in ghost.ticked
  /\ lastOp.name = "V8Metric.tick"
  /\ gauges[v8.metricStore["heap_used_percent"]].centi = 625

\* the ids the probes are to publish their accumulators under
V8IdOf ==
  [total_heap_size |-> "internal/v8/heap/total",
   heap_used_percent |-> "internal/v8/heap/usage",
   used_heap_size |-> "internal/v8/heap/used"]

RtIdOf ==
  [volontarySwitchs |-> "internal/uv/cpu/contextswitch/volontary",
   inVolontarySwitchs |-> "internal/uv/cpu/contextswitch/involontary",
   softPageFault |-> "internal/uv/memory/pagefault/minor",
   hardPageFault |-> "internal/uv/memory/pagefault/major"]

GcIdPairs ==
  { <<"internal/v8/gc/new/pause/p50", "internal/v8/gc/new/pause/p95">>,
    <<"internal/v8/gc/old/pause/p50", "internal/v8/gc/old/pause/p95">> }

\* the registry binds id to accumulator acc of the given kind
Bound(id, kind, acc) ==
  \E i \in DOMAIN registry :
    registry[i].id = id /\ registry[i].kind = kind /\ registry[i].acc = acc

OneBindingPerId ==
  /\ \A i, j \in DOMAIN registry : registry[i].id = registry[j].id => i = j
  /\ Len(Snapshot) = Len(registry)
  /\ \A i, j \in DOMAIN Snapshot : Snapshot[i].id = Snapshot[j].id => i = j

\* no id registered by a probe was taken over by another of its metrics
IdsPairwiseDistinct ==
  /\ \A key \in V8MetricNames :
       v8.metricStore[key] # Undefined
         => Bound(V8IdOf[key], "gauge", v8.metricStore[key])
  /\ \A key \in RtMetricKeys :
       rt.metrics[key] # Undefined
         => Bound(RtIdOf[key], "histogram", rt.metrics[key])
  /\ \A pair \in GcIdPairs, h \in DOMAIN hists :
       Bound(pair[1], "histogram", h) <=> Bound(pair[2], "histogram", h)

\* a step leaves a binding as it is or rebinds its id to an accumulator
\* created by that step; ids keep their place
RebindsToLatest ==
  /\ Len(registry') >= Len(registry)
  /\ \A i \in DOMAIN registry' :
       \/ i \in DOMAIN registry /\ registry'[i] = registry[i]
       \/ /\ i \in DOMAIN registry => registry'[i].id = registry[i].id
          /\ registry'[i].acc > (IF registry'[i].kind = "gauge"
                                   THEN Len(gauges) ELSE Len(hists))

\* C6: the registry holds exactly one binding per id and a snapshot exactly
\* one entry per id; the ids one init() of V8Metric and RuntimeMetrics
\* registers are pairwise distinct; a later init() rebinds each id it
\* registers to the accumulator it created.
C6_OneBindingPerId ==
  /\ [](OneBindingPerId /\ IdsPairwiseDistinct)
  /\ [][RebindsToLatest]_vars

\* C6 witness: V8Metric.init() has run twice on the same metric service
C6_Witness ==
  /\ Len(gauges) = 6
  /\ Len(registry) = 3
  /\ \A i \in DOMAIN registry : registry[i].acc > 3

\* C7: no interval timer created by a probe is left ref'd, so none of them
\* can keep the process alive.
C7_TimersUnrefd == \A t \in DOMAIN timers : ~timers[t].ref

C7_Witness == lastOp.name = "V8Metric.init" /\ ActiveTimers # {}

RECURSIVE SetMax(_)
SetMax(S) ==
  LET x == CHOOSE y \in S : TRUE
  IN IF S = {x} THEN x ELSE Max(x, SetMax(S \ {x}))

RECURSIVE SetMin(_)
SetMin(S) ==
  LET x == CHOOSE y \in S : TRUE
  IN IF S = {x} THEN x ELSE Min(x, SetMin(S \ {x}))

P50WithinObserved ==
  \A i \in DOMAIN registry :
    registry[i].measure = "p50" =>
      LET seen == hists[registry[i].acc].seen
          value == Snapshot[i].value
      IN IF seen = {} THEN value = NoData
         ELSE /\ value.type = "number"
              /\ 100 * SetMin(seen) <= value.centi
              /\ value.centi <= 100 * SetMax(seen)

P50AtMostP95 ==
  \A pair \in GcIdPairs :
    \A i, j \in DOMAIN Snapshot :
      (Snapshot[i].id = pair[1] /\ Snapshot[j].id = pair[2]) =>
        /\ Snapshot[i].value.type = Snapshot[j].value.type
        /\ Snapshot[i].value.centi <= Snapshot[j].value.centi

\* C8: the p50 a snapshot reports for a GC pause histogram lies between the
\* smallest and the largest value the histogram has observed, is the
\* no-data value when it has observed none, and never exceeds the p95 the
\* same snapshot reports for the same GC space.
C8_P50Bounds == P50WithinObserved /\ P50AtMostP95

\* C8 witness: a histogram whose window has overflowed reports a p50
\* strictly between the extremes it observed
C8_Witness ==
  \E i \in DOMAIN registry :
    /\ registry[i].measure = "p50"
    /\ hists[registry[i].acc].count > WindowCap
    /\ Cardinality(hists[registry[i].acc].seen) = 3
    /\ Snapshot[i].value.centi \notin {0, 10000}

\* s is strictly increasing
Increasing(s) == \A i, j \in DOMAIN s : i < j => s[i] < s[j]

Buffering(tr) == tr.state \in {"disconnected", "connecting"}

\* C9: send() is possible in every state of a channel; while the channel is
\* not connected the payload goes to a buffer of at most QueueCap entries,
\* a full buffer giving up its oldest entry and keeping the newest; when the
\* channel becomes connected the buffer is delivered in submission order.
C9_BufferDropsOldest ==
  /\ [](\A i \in DOMAIN transports :
          /\ Len(transports[i].queue) <= QueueCap
          /\ Increasing(transports[i].delivered \o transports[i].queue)
          /\ (proc = "running" /\ Submitted < MaxSends)
               => ENABLED TransportSend(i))
  /\ [][\A i \in DOMAIN transports :
          LET tr == transports[i]
              payload == tr.sent + 1
          IN /\ (TransportSend(i) /\ Buffering(tr)) =>
                  /\ transports'[i].delivered = tr.delivered
                  /\ transports'[i].queue =
                       IF Len(tr.queue) < QueueCap
                         THEN tr.queue \o <<payload>>
                         ELSE Tail(tr.queue) \o <<payload>>
             /\ TransportConnected(i) =>
                  /\ transports'[i].delivered = tr.delivered \o tr.queue
                  /\ transports'[i].queue = <<>>
       ]_vars

\* C9 witness: a full buffer took one more payload, lost its oldest and was
\* then delivered on connection
C9_Witness ==
  \E i \in DOMAIN transports :
    /\ lastOp.name = "Transport.connected"
    /\ transports[i].state = "connected"
    /\ transports[i].sent = QueueCap + 1
    /\ transports[i].delivered = <<2, 3>>

\* C10: a channel enters closing only by destroy(); a closing channel stays
\* closing and has no reconnect attempt scheduled; destroy() can be called in
\* every state and does not throw.
C10_ClosingIsTerminal ==
  /\ [](\A i \in DOMAIN transports :
          /\ transports[i].state = "closing" => ~transports[i].reconnect
          /\ proc = "running" => ENABLED TransportDestroy(i))
  /\ [][ /\ \A i \in DOMAIN transports :
              /\ (transports[i].state # "closing"
                    /\ transports'[i].state = "closing")
                   => lastOp'.name = "Transport.destroy"
              /\ transports[i].state = "closing"
                   => transports'[i].state = "closing"
         /\ lastOp'.name = "Transport.destroy" => ~lastOp'.threw
       ]_vars

\* C10 witness: destroy() has run on a channel that was waiting to reconnect,
\* and once more on the closing channel
C10_Witness ==
  \E i \in DOMAIN transports :
    /\ lastOp.name = "Transport.destroy"
    /\ transports[i].state = "closing"
    /\ transports[i].delivered # <<>>
    /\ transports[i].sent > Len(transports[i].delivered)

\* the histograms stored in this.metrics
UsageHistograms == {rt.metrics[k] : k \in RtMetricKeys} \ {Undefined}

\* C11: whatever value the 'data' event delivers, the handler returns
\* without throwing; when stats or stats.gc is not an object (null, missing,
\* a number) no histogram is updated, and when stats.usage is not an object
\* the four context-switch / page-fault histograms are left unchanged.
C11_HandlerNeverThrows ==
  [][\A stats \in StatsInputs :
       RuntimeStatsData(stats) =>
         /\ ~lastOp'.threw
         /\ (stats.kind # "object" \/ stats.gc.kind # "object")
              => hists' = hists
         /\ stats.usage.kind # "object"
              => \A m \in UsageHistograms : hists'[m] = hists[m]
    ]_vars

\* the flag of V8MetricsConfig that is to switch each heap metric
FlagOfMetric ==
  [total_heap_size |-> "heap_total_size",
   used_heap_size |-> "heap_used_size",
   heap_used_percent |-> "heap_used_percent"]

\* the step has bound id to a gauge it created
RegistersGauge(id) ==
  \E i \in DOMAIN registry' :
    /\ registry'[i].id = id
    /\ registry'[i].kind = "gauge"
    /\ registry'[i].acc > Len(gauges)

\* C12: an init(config) that gets as far as registering metrics registers
\* the heap metric of every flag that is true or absent, and registers no
\* metric (so creates no gauge a tick could set) for a flag that is false.
C12_DisabledFlagNotRegistered ==
  [][\A config \in V8Configs :
       (V8Init(config) /\ config.tag = "object" /\ lastOp'.log = <<"init">>)
       => \A key \in V8MetricNames :
            RegistersGauge(V8IdOf[key])
              <=> Flag(config.flags, FlagOfMetric[key]) # "false"
    ]_vars

\* accumulator acc of the given kind is bound to some id of the registry
Registered(kind, acc) ==
  \E i \in DOMAIN registry : registry[i].kind = kind /\ registry[i].acc = acc

\* C13: a timer tick or a 'data' event changes an accumulator only while
\* the accumulator is registered with the metric service; in particular a
\* histogram whose option was disabled at init() takes no update.
C13_UpdatesOnlyRegistered ==
  [][ /\ \A h \in DOMAIN hists :
           hists'[h] # hists[h] => Registered("histogram", h)
      /\ \A g \in DOMAIN gauges :
           gauges'[g] # gauges[g] => Registered("gauge", g)
    ]_vars

\* every variable but lastOp
state == <<services, registry, gauges, hists, timers, handlers, listeners,
           v8, rt, transports, proc, ghost>>

\* C14: init(false) of either probe returns at once: nothing is logged, no
\* service is looked up, no metric registered, no timer started, no listener
\* attached, no field of the probe changed.  init(true), and init() without
\* argument, take exactly the steps init(defaultOptions) takes.
C14_InitFalseAndDefaults ==
  [][ /\ V8Init([tag |-> "false"])
           => /\ UNCHANGED state
              /\ lastOp' = Op("V8Metric.init", <<>>, FALSE)
      /\ RuntimeInit([tag |-> "false"])
           => /\ UNCHANGED state
              /\ lastOp' = Op("RuntimeMetrics.init", <<>>, FALSE)
      /\ \A config \in {[tag |-> "true"], [tag |-> "undefined"]} :
           /\ V8Init(config)
                <=> V8Init([tag |-> "object", flags |-> V8DefaultOptions])
           /\ RuntimeInit(config)
                <=> RuntimeInit([tag |-> "object", flags |-> RtDefaultOptions])
    ]_vars

\* C14 witness: init(false) has run on a RuntimeMetrics probe that an
\* earlier init() had set up with all four options
C14_Witness ==
  /\ lastOp = Op("RuntimeMetrics.init", <<>>, FALSE)
  /\ rt.handle # Undefined
  /\ listeners = <<rt.handle>>
  /\ Len(registry) = 8

\* C15: destroy() of a probe never throws and leaves no timer of the probe
\* running and no 'data' listener attached, whatever came before it (no
\* init(), an aborted init(), an earlier destroy()); on a probe already
\* destroyed it changes nothing.
C15_DestroySafeIdempotent ==
  [][ /\ V8Destroy
           => /\ ~lastOp'.threw
              /\ ActiveTimers' = {}
              /\ ghost.v8Destroyed => UNCHANGED state
      /\ RuntimeDestroy
           => /\ ~lastOp'.threw
              /\ listeners' = <<>>
              /\ ghost.rtDestroyed => UNCHANGED state
    ]_vars

\* the sizes of the heap statistics are whole KiB
KiB == 1024

\* centi hundredths is num / den rounded to two decimals, a half rounding up
RoundsTo(centi, num, den) ==
  /\ (2 * centi - 1) * den <= 200 * num
  /\ 200 * num < (2 * centi + 1) * den

\* how many times one run of the interval callback writes the gauge of key
TickWrites(key, stats) ==
  (IF LoopWrites(key, stats) THEN 1 ELSE 0)
    + (IF key = "heap_used_percent" /\ UsageWrites THEN 1 ELSE 0)

\* C16: a tick writes every registered heap gauge exactly once.  The total
\* and used gauges then hold the byte count in MiB rounded to two decimals;
\* the usage gauge holds the number used / total * 100 rounded to two
\* decimals, between 0 and 100 when 0 <= used <= total and total > 0.
C16_TickWritesRounded ==
  [][\A t \in DOMAIN timers, stats \in HeapStatistics :
       V8Tick(t, stats) =>
         \A i \in DOMAIN registry :
           registry[i].kind = "gauge" =>
             \E key \in V8MetricNames :
               /\ v8.metricStore[key] = registry[i].acc
               /\ V8IdOf[key] = registry[i].id
               /\ TickWrites(key, stats) = 1
               /\ LET value == GaugeGet(gauges'[registry[i].acc])
                      used == stats.used_heap_size \div KiB
                      total == stats.total_heap_size \div KiB
                  IN IF key = "heap_used_percent"
                       THEN /\ value.type = "number"
                            /\ total > 0 => RoundsTo(value.centi, 100 * used, total)
                            /\ (0 <= used /\ used <= total /\ total > 0)
                                 => (0 <= value.centi /\ value.centi <= 10000)
                       ELSE RoundsTo(value.centi, stats[key] \div KiB, KiB)
    ]_vars

\* C16 witness: a tick has read 128 KiB used of 3 MiB: the used gauge holds
\* 0.13 (0.125 rounded), the usage gauge 4.17, the total gauge 3.00
C16_Witness ==
  /\ lastOp.name = "V8Metric.tick"
  /\ \A key \in V8MetricNames : v8.metricStore[key] # Undefined
  /\ gauges[v8.metricStore["used_heap_size"]].centi = 13
  /\ gauges[v8.metricStore["heap_used_percent"]].centi = 417
  /\ gauges[v8.metricStore["total_heap_size"]].centi = 300

====
